---- MODULE Spec2Model ----
(***************************************************************************)
(* Continuous-review (R, Q) inventory policy: the single-scenario          *)
(* simulator run_one, and the grid search that calls it                    *)
(* (Source Code/Holts_Winter_Monte_Forecast_Opt.py).                       *)
(*                                                                         *)
(* Spec      : one call of run_one, one loop iteration (one simulated day) *)
(*             per step.                                                   *)
(* SpecGrid  : the grid search, filter, ranking and validation phases     *)
(*             (sections 4 and 5); run_one is applied there as the         *)
(*             operator RunOne, which folds the same day step over a       *)
(*             demand path.  The baseline Monte Carlo run of section 3     *)
(*             (run_one on the baseline R, Q) precedes the grid search and *)
(*             feeds only the printed summaries; it is not part of the     *)
(*             state modelled here.                                        *)
(***************************************************************************)
EXTENDS Integers, Sequences, FiniteSets, Bags, TLC

(***************************************************************************)
(* Program constants                                                       *)
(***************************************************************************)
LEAD_TIME == 5
HOLD_COST == 1
ORDER_COST == 50
TOP_N == 10
\* target_service = 0.95
target_service == [kind |-> "finite", num |-> 19, den |-> 20]

(***************************************************************************)
(* Bounds of the model                                                     *)
(***************************************************************************)
\* longest demand path given to one stepwise run_one call
MaxDays == 7

\* daily demand values: np.rint(np.clip(draw, 0, None)).astype(int) is any
\* non-negative integer
DemandVals == {0, 3, 10}
\* policies handed to run_one: the baseline and the grid candidates
\* R0-20 .. R0+19, Q0-20 .. Q0+19, which are not validated and so include
\* non-positive values
RVals == {-1, 2, 40}
QVals == {-2, 0, 3, 20}

\* half-width of the candidate grids (20 in the source)
GridHalfWidth == 1
\* simulations per grid pair (100 in the source)
N_GRID_SIMS == 2
\* simulations of the validation phase (10000 in the source)
N_SIMS == 1
\* period of the grid search's seeded generator: default_rng(0) is a
\* deterministic stream fixed by the input data, modelled as a cycle of
\* StreamLen daily demand values chosen with the input; a demand path takes
\* the next n_days values of the cycle
StreamLen == 3
\* horizons (len(df)) and daily demand values of the grid-search inputs
GridDays == {1, 2, 3}
GridDemandVals == {0, 20, 21}
\* baseline policies the grids are centred on
R0Vals == {18, 19}
Q0Vals == {1, 2}

(***************************************************************************)
(* Helpers                                                                 *)
(***************************************************************************)
Min(a, b) == IF a <= b THEN a ELSE b

RECURSIVE SumSeq(_)
SumSeq(s) == IF s = <<>> THEN 0 ELSE Head(s) + SumSeq(Tail(s))

RECURSIVE GCD(_, _)
GCD(a, b) == IF b = 0 THEN a ELSE GCD(b, a % b)

Abs(a) == IF a < 0 THEN -a ELSE a

(***************************************************************************)
(* Floating-point results are kept exact: a finite value is a normalised   *)
(* fraction num/den with den > 0 (rounding of the binary representation    *)
(* is not modelled); the two non-finite values a division by a zero numpy  *)
(* integer can produce here are NaN (0/0) and -inf (1 - x/0, x > 0).       *)
(***************************************************************************)
NaN == [kind |-> "nan", num |-> 0, den |-> 1]
NegInf == [kind |-> "-inf", num |-> 0, den |-> 1]

Rat(n, d) ==
    LET g == GCD(Abs(n), d)
    IN  [kind |-> "finite", num |-> n \div g, den |-> d \div g]

IsFinite(x) == x.kind = "finite"

\* float addition
FAdd(x, y) ==
    IF x = NaN \/ y = NaN THEN NaN
    ELSE IF x = NegInf \/ y = NegInf THEN NegInf
    ELSE Rat(x.num * y.den + y.num * x.den, x.den * y.den)

\* float division by a positive integer
FDivInt(x, k) ==
    IF ~IsFinite(x) THEN x ELSE Rat(x.num, x.den * k)

\* float multiplication by a non-negative integer
FMulInt(x, k) ==
    IF ~IsFinite(x) THEN x ELSE Rat(x.num * k, x.den)

\* x >= y on floats: every comparison with NaN is false
FGeq(x, y) ==
    IF x = NaN \/ y = NaN THEN FALSE
    ELSE IF y = NegInf THEN TRUE
    ELSE IF x = NegInf THEN FALSE
    ELSE x.num * y.den >= y.num * x.den

\* x < y on floats
FLess(x, y) ==
    IF x = NaN \/ y = NaN THEN FALSE
    ELSE IF x = NegInf THEN y # NegInf
    ELSE IF y = NegInf THEN FALSE
    ELSE x.num * y.den < y.num * x.den

(***************************************************************************)
(* run_one: the three parts of one loop iteration                          *)
(***************************************************************************)
\* Receive with the arrival test made before the decrement
Receive_TestBeforeDecrement(deliveries, stock, Q) ==
    IF deliveries # <<>>
    THEN LET arrived == SelectSeq(deliveries, LAMBDA t: t = 0)
             kept    == SelectSeq(deliveries, LAMBDA t: t > 0)
         IN  [deliveries |-> [i \in 1..Len(kept) |-> kept[i] - 1],
              stock      |-> stock + Q * Len(arrived),
              arrived    |-> Len(arrived)]
    ELSE [deliveries |-> deliveries, stock |-> stock, arrived |-> 0]

\* Receive that credits the arrivals but leaves them in the pipeline
Receive_KeepArrived(deliveries, stock, Q) ==
    IF deliveries # <<>>
    THEN LET dec     == [i \in 1..Len(deliveries) |-> deliveries[i] - 1]
             arrived == SelectSeq(dec, LAMBDA t: t = 0)
         IN  [deliveries |-> dec,
              stock      |-> stock + Q * Len(arrived),
              arrived    |-> Len(arrived)]
    ELSE [deliveries |-> deliveries, stock |-> stock, arrived |-> 0]

\* 1) advance the pipeline and receive what reaches 0 (lines 96-101)
Receive(deliveries, stock, Q) ==
    IF deliveries # <<>>
    THEN LET dec     == [i \in 1..Len(deliveries) |-> deliveries[i] - 1]
             arrived == SelectSeq(dec, LAMBDA t: t = 0)
         IN  IF arrived # <<>>
             THEN [deliveries |-> SelectSeq(dec, LAMBDA t: t > 0),
                   stock      |-> stock + Q * Len(arrived),
                   arrived    |-> Len(arrived)]
             ELSE [deliveries |-> dec, stock |-> stock, arrived |-> 0]
    ELSE [deliveries |-> deliveries, stock |-> stock, arrived |-> 0]

\* 2) serve demand (lines 104-107)
Serve(stock, d) ==
    LET sold == Min(stock, d)
    IN  [sold |-> sold, stock |-> stock - sold, short |-> d - sold]

\* the reorder rule with a strict comparison
ShouldOrder_Strict(stock, deliveries, R, Q) ==
    stock + Q * Len(deliveries) < R

\* 3) the reorder rule (lines 111-112)
ShouldOrder(stock, deliveries, R, Q) ==
    stock + Q * Len(deliveries) <= R

\* the loop body, lines 94-114: st is the record of run_one's locals
DayStep(st, d, R, Q) ==
    LET rc    == Receive(st.deliveries, st.stock, Q)
        sv    == Serve(rc.stock, d)
        order == ShouldOrder(sv.stock, rc.deliveries, R, Q)
    IN  [stock       |-> sv.stock,
         stockouts   |-> st.stockouts + sv.short,
         hold_cost   |-> st.hold_cost + sv.stock * HOLD_COST,
         order_count |-> IF order THEN st.order_count + 1 ELSE st.order_count,
         deliveries  |-> IF order THEN Append(rc.deliveries, LEAD_TIME)
                                  ELSE rc.deliveries,
         \* what the iteration did, for the record of the run
         day         |-> [d |-> d, received |-> rc.arrived,
                          stockStart |-> st.stock, stockRecv |-> rc.stock,
                          sold |-> sv.sold, ordered |-> order]]

\* run_one starting at the reorder point instead of R + Q
InitLocals_StartAtR(R, Q) ==
    [stock |-> R, stockouts |-> 0, hold_cost |-> 0, order_count |-> 0,
     deliveries |-> <<>>]

\* lines 88-92
InitLocals(R, Q) ==
    [stock |-> R + Q, stockouts |-> 0, hold_cost |-> 0, order_count |-> 0,
     deliveries |-> <<>>]

\* line 117: 1 - stockouts / demand.sum(), a numpy division: x/0 is nan for
\* x = 0 and inf for x > 0, with a warning and no exception
ServiceLevel(stockouts, total) ==
    IF total = 0
    THEN IF stockouts = 0 THEN NaN ELSE NegInf
    ELSE Rat(total - stockouts, total)

\* lines 117-121; n_days is the length of every demand path
KPI(st, total, n_days) ==
    LET avg_order_cost == Rat(st.order_count * ORDER_COST, n_days)
        avg_hold_cost  == Rat(st.hold_cost, n_days)
    IN  [service_level  |-> ServiceLevel(st.stockouts, total),
         stockouts      |-> st.stockouts,
         avg_hold_cost  |-> avg_hold_cost,
         order_count    |-> st.order_count,
         avg_order_cost |-> avg_order_cost,
         avg_total_cost |-> FAdd(avg_hold_cost, avg_order_cost)]

(***************************************************************************)
(* State of one stepwise run_one call                                      *)
(***************************************************************************)
VARIABLES
    R, Q,          \* run_one's parameters
    demand,        \* the part of the demand path iterated so far
    stock, stockouts, hold_cost, order_count, deliveries,   \* run_one's locals
    pc,            \* "loop" | "done"
    result,        \* <<the returned KPI tuple>>, once done
    days           \* record of the run: what each iteration did

simVars == <<R, Q, demand, stock, stockouts, hold_cost, order_count,
             deliveries, pc, result, days>>

(***************************************************************************)
(* State of the grid search, ranking and validation (sections 4 and 5)     *)
(***************************************************************************)
VARIABLES
    R0, Q0,        \* the baseline R and Q the grids are built around
    n_days,        \* len(df)
    stream, rngPos,   \* the seeded generator: its cycle and its position
    gpc,           \* "grid" | "filter" | "rank" | "validate" | "end"
                   \* | "no_feasible" (SystemExit(0)) | "crashed"
    r, q, s,       \* loop variables of the grid search
    service_total, hold_total, order_total,
    grid_rows, candidates, sorted_cands, topN,
    best,          \* <<the first row of sorted_cands>>, once selected
    val_records,
    exit_code,     \* <<status>> once the process has ended
    calls          \* record of the run: the bag of the arguments of the
                   \* run_one calls made

gridVars == <<R0, Q0, n_days, stream, rngPos, gpc, r, q, s, service_total,
              hold_total, order_total, grid_rows, candidates, sorted_cands,
              topN, best, val_records, exit_code, calls>>

vars == <<simVars, gridVars>>

\* the grid search is not running
GridIdle ==
    /\ R0 = 0 /\ Q0 = 0 /\ n_days = 0 /\ stream = <<>> /\ rngPos = 0
    /\ gpc = "idle" /\ r = 0 /\ q = 0 /\ s = 0
    /\ service_total = Rat(0, 1) /\ hold_total = Rat(0, 1) /\ order_total = 0
    /\ grid_rows = <<>> /\ candidates = <<>> /\ sorted_cands = <<>>
    /\ topN = <<>> /\ best = <<>> /\ val_records = <<>> /\ exit_code = <<>>
    /\ calls = EmptyBag

Locals ==
    [stock |-> stock, stockouts |-> stockouts, hold_cost |-> hold_cost,
     order_count |-> order_count, deliveries |-> deliveries]

Init ==
    /\ R \in RVals
    /\ Q \in QVals
    /\ demand = <<>>
    /\ stock = InitLocals(R, Q).stock
    /\ stockouts = 0
    /\ hold_cost = 0
    /\ order_count = 0
    /\ deliveries = <<>>
    /\ pc = "loop"
    /\ result = <<>>
    /\ days = <<>>
    /\ GridIdle

\* one iteration of `for d in demand`
Day ==
    /\ pc = "loop"
    /\ Len(demand) < MaxDays
    /\ \E d \in DemandVals :
         LET nx == DayStep(Locals, d, R, Q)
         IN  /\ demand' = Append(demand, d)
             /\ stock' = nx.stock
             /\ stockouts' = nx.stockouts
             /\ hold_cost' = nx.hold_cost
             /\ order_count' = nx.order_count
             /\ deliveries' = nx.deliveries
             /\ days' = Append(days, nx.day)
    /\ UNCHANGED <<R, Q, pc, result>>
    /\ UNCHANGED gridVars

\* the path is exhausted: KPI calculations and return
Finish ==
    /\ pc = "loop"
    /\ Len(demand) >= 1
    /\ result' = <<KPI(Locals, SumSeq(demand), Len(demand))>>
    /\ pc' = "done"
    /\ UNCHANGED <<R, Q, demand, stock, stockouts, hold_cost, order_count,
                   deliveries, days>>
    /\ UNCHANGED gridVars

Next == Day \/ Finish

Spec == Init /\ [][Next]_vars

(***************************************************************************)
(* run_one as a function of its arguments                                  *)
(***************************************************************************)
RECURSIVE RunLoop(_, _, _, _)
RunLoop(st, path, rr, qq) ==
    IF path = <<>> THEN st
    ELSE LET nx == DayStep(st, Head(path), rr, qq)
         IN  RunLoop([stock |-> nx.stock, stockouts |-> nx.stockouts,
                      hold_cost |-> nx.hold_cost,
                      order_count |-> nx.order_count,
                      deliveries |-> nx.deliveries],
                     Tail(path), rr, qq)

\* run_one(demand, R, Q), lines 87-121; the global n_days is len(demand)
RunOne(path, rr, qq) ==
    KPI(RunLoop(InitLocals(rr, qq), path, rr, qq), SumSeq(path), Len(path))

(***************************************************************************)
(* Grid search (section 4)                                                 *)
(***************************************************************************)
\* a range that includes its end
Range_Inclusive(a, b) == a .. b

\* Python's range(a, b)
Range(a, b) == a .. (b - 1)

\* lines 168-169
R_grid == Range(R0 - GridHalfWidth, R0 + GridHalfWidth)
Q_grid == Range(Q0 - GridHalfWidth, Q0 + GridHalfWidth)

\* demand paths of a given horizon
Paths(n) == [1..n -> GridDemandVals]

\* the next demand path of the generator (lines 181-182) and the position
\* it leaves the generator in
Draw == [i \in 1..n_days |-> stream[((rngPos + i - 2) % Len(stream)) + 1]]
Advance == ((rngPos + n_days - 1) % Len(stream)) + 1

\* line 201: the rows that reach the target fill rate
MeetsTarget(row) == FGeq(row.service_lvl, target_service)
Feasible(rows) == SelectSeq(rows, MeetsTarget)

\* the emptiness test left out
IsEmpty_Never(cands) == FALSE

\* line 204: candidates.empty
IsEmpty(cands) == cands = <<>>

\* the order with both columns ascending
RowBefore_ServiceAscending(a, b) ==
    \/ FLess(a.avg_total, b.avg_total)
    \/ /\ a.avg_total = b.avg_total
       /\ FLess(a.service_lvl, b.service_lvl)

\* line 209: the order of sort_values(["avg_total_$", "service_lvl"],
\* ascending=[True, False])
RowBefore(a, b) ==
    \/ FLess(a.avg_total, b.avg_total)
    \/ /\ a.avg_total = b.avg_total
       /\ FLess(b.service_lvl, a.service_lvl)

\* stable insertion of x into a sorted sequence
RECURSIVE Insert(_, _)
Insert(sorted, x) ==
    IF sorted = <<>> THEN <<x>>
    ELSE IF RowBefore(x, Head(sorted)) THEN <<x>> \o sorted
    ELSE <<Head(sorted)>> \o Insert(Tail(sorted), x)

RECURSIVE SortFrom(_, _)
SortFrom(sorted, rows) ==
    IF rows = <<>> THEN sorted
    ELSE SortFrom(Insert(sorted, Head(rows)), Tail(rows))

\* line 209: a stable sort
SortValues(rows) == SortFrom(<<>>, rows)

\* DataFrame.head(n)
HeadRows(rows, n) == SubSeq(rows, 1, Min(n, Len(rows)))

\* lines 187-192: the row of the pair (r, q)
GridRow(rr, qq, stotal, htotal, ototal) ==
    LET mean_service    == FDivInt(stotal, N_GRID_SIMS)
        mean_hold       == FDivInt(htotal, N_GRID_SIMS)
        mean_orders     == Rat(ototal, N_GRID_SIMS)
        mean_order_cost == FDivInt(FMulInt(mean_orders, ORDER_COST), n_days)
    IN  [R |-> rr, Q |-> qq, service_lvl |-> mean_service,
         avg_hold |-> mean_hold, avg_order |-> mean_order_cost,
         avg_total |-> FAdd(mean_hold, mean_order_cost)]

Min0(S) == CHOOSE x \in S : \A y \in S : x <= y
Max0(S) == CHOOSE x \in S : \A y \in S : x >= y

InitGrid ==
    /\ R = 0 /\ Q = 0 /\ demand = <<>> /\ stock = 0 /\ stockouts = 0
    /\ hold_cost = 0 /\ order_count = 0 /\ deliveries = <<>>
    /\ pc = "idle" /\ result = <<>> /\ days = <<>>
    /\ R0 \in R0Vals
    /\ Q0 \in Q0Vals
    /\ n_days \in GridDays
    /\ stream \in [1..StreamLen -> GridDemandVals]
    /\ rngPos = 1
    /\ gpc = "grid"
    /\ r = Min0(R_grid)
    /\ q = Min0(Q_grid)
    /\ s = 0
    /\ service_total = Rat(0, 1)
    /\ hold_total = Rat(0, 1)
    /\ order_total = 0
    /\ grid_rows = <<>>
    /\ candidates = <<>>
    /\ sorted_cands = <<>>
    /\ topN = <<>>
    /\ best = <<>>
    /\ val_records = <<>>
    /\ exit_code = <<>>
    /\ calls = EmptyBag

\* one iteration of `for s in range(N_GRID_SIMS)`, lines 180-186
GridSim ==
    /\ gpc = "grid"
    /\ s < N_GRID_SIMS
    /\ LET k == RunOne(Draw, r, q)
       IN  /\ service_total' = FAdd(service_total, k.service_level)
           /\ hold_total' = FAdd(hold_total, k.avg_hold_cost)
           /\ order_total' = order_total + k.order_count
    /\ rngPos' = Advance
    /\ s' = s + 1
    /\ calls' = calls (+) SetToBag({[phase |-> "grid", R |-> r, Q |-> q]})
    /\ UNCHANGED <<R0, Q0, n_days, stream, gpc, r, q, grid_rows, candidates,
                   sorted_cands, topN, best, val_records, exit_code>>
    /\ UNCHANGED simVars

\* the end of the inner loop: lines 187-192, then the next (r, q) with its
\* totals reset (lines 174-179), or the end of the grid
GridAppend ==
    /\ gpc = "grid"
    /\ s = N_GRID_SIMS
    /\ grid_rows' = Append(grid_rows,
                           GridRow(r, q, service_total, hold_total, order_total))
    /\ IF q # Max0(Q_grid)
       THEN /\ q' = q + 1
            /\ UNCHANGED <<r, gpc>>
       ELSE IF r # Max0(R_grid)
       THEN /\ r' = r + 1
            /\ q' = Min0(Q_grid)
            /\ UNCHANGED gpc
       ELSE /\ gpc' = "filter"
            /\ UNCHANGED <<r, q>>
    /\ s' = 0
    /\ service_total' = Rat(0, 1)
    /\ hold_total' = Rat(0, 1)
    /\ order_total' = 0
    /\ UNCHANGED <<R0, Q0, n_days, stream, rngPos, candidates, sorted_cands,
                   topN, best, val_records, exit_code, calls>>
    /\ UNCHANGED simVars

\* lines 200-206: filter on the target; with no candidate, SystemExit(0)
Filter ==
    /\ gpc = "filter"
    /\ candidates' = Feasible(grid_rows)
    /\ IF IsEmpty(candidates')
       THEN /\ gpc' = "no_feasible"
            /\ exit_code' = <<0>>
       ELSE /\ gpc' = "rank"
            /\ UNCHANGED exit_code
    /\ UNCHANGED <<R0, Q0, n_days, stream, rngPos, r, q, s, service_total,
                   hold_total, order_total, grid_rows, sorted_cands, topN,
                   best, val_records, calls>>
    /\ UNCHANGED simVars

\* lines 209-214 and 233-236: rank, select the first row, reseed
Rank ==
    /\ gpc = "rank"
    /\ sorted_cands' = SortValues(candidates)
    /\ IF sorted_cands' = <<>>
       THEN \* iloc[0] of an empty frame raises IndexError
            /\ gpc' = "crashed"
            /\ exit_code' = <<1>>
            /\ UNCHANGED <<best, topN>>
       ELSE /\ best' = <<sorted_cands'[1]>>
            /\ topN' = HeadRows(sorted_cands', TOP_N)
            /\ gpc' = "validate"
            /\ UNCHANGED exit_code
    /\ UNCHANGED <<R0, Q0, n_days, stream, rngPos, r, q, s, service_total,
                   hold_total, order_total, grid_rows, candidates,
                   val_records, calls>>
    /\ UNCHANGED simVars

\* one iteration of the validation loop, lines 238-241, drawn from a
\* generator of its own (default_rng(123))
ValidateSim ==
    /\ gpc = "validate"
    /\ Len(val_records) < N_SIMS
    /\ \E dpath \in Paths(n_days) :
         val_records' = Append(val_records, RunOne(dpath, best[1].R, best[1].Q))
    /\ calls' = calls (+) SetToBag({[phase |-> "validate",
                                     R |-> best[1].R, Q |-> best[1].Q]})
    /\ UNCHANGED <<R0, Q0, n_days, stream, rngPos, gpc, r, q, s,
                   service_total, hold_total, order_total, grid_rows,
                   candidates, sorted_cands, topN, best, exit_code>>
    /\ UNCHANGED simVars

\* the script runs to its end
ValidateEnd ==
    /\ gpc = "validate"
    /\ Len(val_records) = N_SIMS
    /\ gpc' = "end"
    /\ exit_code' = <<0>>
    /\ UNCHANGED <<R0, Q0, n_days, stream, rngPos, r, q, s, service_total,
                   hold_total, order_total, grid_rows, candidates,
                   sorted_cands, topN, best, val_records, calls>>
    /\ UNCHANGED simVars

NextGrid ==
    GridSim \/ GridAppend \/ Filter \/ Rank \/ ValidateSim \/ ValidateEnd

SpecGrid == InitGrid /\ [][NextGrid]_vars

(***************************************************************************)
(* Properties of run_one (checked under Spec)                              *)
(***************************************************************************)
\* the PolicyParameters invariant of the data model
ValidPolicy == R >= 0 /\ Q > 0

RECURSIVE SumSold(_)
SumSold(ds) == IF ds = <<>> THEN 0 ELSE Head(ds).sold + SumSold(Tail(ds))

\* the inventory position the reorder check of day u saw
PositionOn(u) ==
    days[u].stockRecv - days[u].sold
      + Q * Cardinality({v \in 1..u-1 : days[v].ordered /\ v + LEAD_TIME > u})

\* C1: for any demand path and any policy run through run_one, stockouts plus
\* the units sold over the days equals the total demand, and on-hand stock is
\* never negative: not initially, not after a receipt, not after a sale.
C1_ConservationAndNonNegative ==
    /\ stockouts + SumSold(days) = SumSeq(demand)
    /\ stock >= 0
    /\ \A u \in 1..Len(days) :
         days[u].stockStart >= 0 /\ days[u].stockRecv >= 0

\* The same statement restricted to policies that satisfy the data model's
\* invariant R >= 0, Q > 0 (not a claim: it locates the failure of C1 in the
\* policies the missing validation of C7 lets through).
ValidPolicyConservation ==
    ValidPolicy => C1_ConservationAndNonNegative

\* C2 as stated: the path [10,10,10,10,10] with R = 40, Q = 20 starts at
\* 60 on hand, never stocks out, has service level 1.0 and places exactly one
\* order.
ConcreteScenario ==
    /\ R = 40
    /\ Q = 20
    /\ demand = <<10, 10, 10, 10, 10>>
    /\ pc = "done"

C2_ExactlyOneOrder ==
    ConcreteScenario =>
        /\ days[1].stockStart = 60
        /\ stockouts = 0
        /\ \A u \in 1..5 : days[u].sold = 10
        /\ result[1].service_level = Rat(1, 1)
        /\ result[1].order_count = 1

\* C2 amended: in that scenario run_one starts at 60 on hand, never stocks
\* out, has service level 1.0 and places exactly two orders, on day 2
\* (position 40 <= R) and on day 4 (position 20 + 20 = 40 <= R).
C2_ExactlyTwoOrders ==
    ConcreteScenario =>
        /\ days[1].stockStart = 60
        /\ stockouts = 0
        /\ \A u \in 1..5 : days[u].sold = 10
        /\ result[1].service_level = Rat(1, 1)
        /\ result[1].order_count = 2
        /\ {u \in 1..5 : days[u].ordered} = {2, 4}

C2_Witness == ConcreteScenario

\* C3: an order placed in the reorder check of day t is received exactly
\* once, at the start of day t + LEAD_TIME and on no other day; its Q units
\* are on hand before that day's demand is served.
C3_ReceivedAfterLeadTime ==
    \A u \in 1..Len(days) :
        /\ days[u].received =
             (IF u > LEAD_TIME /\ days[u - LEAD_TIME].ordered THEN 1 ELSE 0)
        /\ days[u].stockRecv = days[u].stockStart + Q * days[u].received
        /\ days[u].sold = Min(days[u].stockRecv, days[u].d)

\* an order of a valid policy arrived and its units were sold on the day of
\* arrival, which the stock at the start of that day could not have served
C3_Witness ==
    /\ ValidPolicy
    /\ \E u \in 1..Len(days) :
         /\ days[u].received = 1
         /\ days[u].sold > days[u].stockStart

\* C4: on every simulated day exactly one order of size Q is placed if the
\* inventory position after the sale is at most R and none otherwise, so
\* order_count grows by at most 1 per day and never exceeds the days simulated.
C4_OneOrderPerDay ==
    [][ demand' # demand =>
          LET ordered  == order_count' - order_count
              position == stock' + Q * (Len(deliveries') - ordered)
          IN  /\ ordered \in {0, 1}
              /\ (ordered = 1) <=> (position <= R)
              /\ Len(deliveries') >= ordered
              /\ ordered = 1 => deliveries'[Len(deliveries')] = LEAD_TIME
              /\ order_count' <= Len(demand')
      ]_vars

\* a run of a valid policy with a day that ordered although the position was
\* more than Q below R, and a day that did not order
C4_Witness ==
    /\ ValidPolicy
    /\ \E u \in 1..Len(days) : days[u].ordered /\ PositionOn(u) + Q < R
    /\ \E u \in 1..Len(days) : ~days[u].ordered
    /\ order_count = Cardinality({u \in 1..Len(days) : days[u].ordered})

\* C10: at the end of every day each in-transit shipment has between 1 and
\* LEAD_TIME days remaining and no two have the same, so at most LEAD_TIME
\* are in transit and at most one is received on any day.
C10_DistinctDaysRemaining ==
    /\ \A i \in 1..Len(deliveries) : deliveries[i] \in 1..LEAD_TIME
    /\ \A i, j \in 1..Len(deliveries) :
         i # j => deliveries[i] # deliveries[j]
    /\ Len(deliveries) <= LEAD_TIME
    /\ \A u \in 1..Len(days) :
         /\ days[u].received <= 1
         /\ days[u].stockRecv - days[u].stockStart \in {0, Q}

\* LEAD_TIME shipments in transit at once, and a later day that received one
C10_Witness ==
    /\ ValidPolicy
    /\ Len(deliveries) = LEAD_TIME
    /\ \E u \in 1..Len(days) : days[u].received = 1

(***************************************************************************)
(* Properties of the grid search (checked under SpecGrid)                  *)
(***************************************************************************)
\* number of positions of a sequence that satisfy a test
Count(seq, Test(_)) == Cardinality({i \in 1..Len(seq) : Test(seq[i])})

\* sq is a rearrangement of sp
IsPermutation(sq, sp) ==
    /\ Len(sq) = Len(sp)
    /\ \A i \in 1..Len(sq) :
         Count(sq, LAMBDA x: x = sq[i]) = Count(sp, LAMBDA x: x = sq[i])

Selected == best # <<>>

\* C5: whenever a best policy is selected, every row of the filtered table
\* reaches the target and the table holds exactly the grid rows that do; the
\* ranked table is the filtered table by ascending total cost, equal costs by
\* descending service level; best is its first row, so no feasible candidate
\* is cheaper and none of equal cost has a higher service level.
C5_FilteredAndRanked ==
    Selected =>
        /\ \A i \in 1..Len(candidates) :
             FGeq(candidates[i].service_lvl, target_service)
        /\ \A i \in 1..Len(grid_rows) :
             FGeq(grid_rows[i].service_lvl, target_service)
               => \E j \in 1..Len(candidates) : candidates[j] = grid_rows[i]
        /\ IsPermutation(sorted_cands, candidates)
        /\ \A i, j \in 1..Len(sorted_cands) :
             i < j =>
               /\ ~FLess(sorted_cands[j].avg_total, sorted_cands[i].avg_total)
               /\ sorted_cands[i].avg_total = sorted_cands[j].avg_total
                    => ~FLess(sorted_cands[i].service_lvl,
                              sorted_cands[j].service_lvl)
        /\ best[1] = sorted_cands[1]
        /\ topN = SubSeq(sorted_cands, 1, Min(TOP_N, Len(sorted_cands)))
        /\ \A i \in 1..Len(candidates) :
             /\ ~FLess(candidates[i].avg_total, best[1].avg_total)
             /\ candidates[i].avg_total = best[1].avg_total
                  => ~FLess(best[1].service_lvl, candidates[i].service_lvl)

\* a selection in which some grid row was filtered out, a candidate earlier
\* in grid order ties the best on cost with a lower service level, and
\* another candidate costs more
C5_Witness ==
    /\ Selected
    /\ Len(candidates) < Len(grid_rows)
    /\ candidates[1] # best[1]
    /\ \E i \in 1..Len(candidates) :
         /\ candidates[i].avg_total = best[1].avg_total
         /\ FLess(candidates[i].service_lvl, best[1].service_lvl)
    /\ \E i \in 1..Len(candidates) :
         FLess(best[1].avg_total, candidates[i].avg_total)

GridDone == gpc \notin {"grid", "filter", "idle"}

NoneFeasible ==
    \A i \in 1..Len(grid_rows) :
        ~FGeq(grid_rows[i].service_lvl, target_service)

\* C6: if no grid candidate reaches the target, the grid search ends in the
\* no-feasible-policy outcome: no best is selected, validation is never
\* entered (no validation run of run_one), and the process ends with status
\* 0, not a crash.
C6_NoFeasiblePolicy ==
    (GridDone /\ NoneFeasible) =>
        /\ gpc = "no_feasible"
        /\ best = <<>>
        /\ sorted_cands = <<>>
        /\ val_records = <<>>
        /\ \A c \in BagToSet(calls) : c.phase = "grid"
        /\ exit_code = <<0>>

\* the outcome reached although every mean service level is a finite number
\* below the target
C6_Witness ==
    /\ gpc = "no_feasible"
    /\ Len(grid_rows) = Cardinality(R_grid) * Cardinality(Q_grid)
    /\ \A i \in 1..Len(grid_rows) : IsFinite(grid_rows[i].service_lvl)

\* C7: a configuration with Q <= 0 or leadTime < 1 is rejected before any
\* simulation runs, so run_one is never executed with Q <= 0 or with
\* LEAD_TIME < 1, grid candidates included.
C7_NoRunWithInvalidPolicy ==
    /\ LEAD_TIME >= 1
    /\ \A c \in BagToSet(calls) : c.Q > 0
    /\ (\E qq \in Q_grid : qq <= 0) => calls = EmptyBag

\* C8: a run with zero total demand does not enter the mean as an ordinary
\* value: the running total and every aggregated mean service level stay
\* defined numbers.
C8_MeanServiceDefined ==
    /\ gpc = "grid" => IsFinite(service_total)
    /\ \A i \in 1..Len(grid_rows) : IsFinite(grid_rows[i].service_lvl)
    /\ \A i \in 1..Len(val_records) : IsFinite(val_records[i].service_level)

GridCalls(rr, qq) == CopiesIn([phase |-> "grid", R |-> rr, Q |-> qq], calls)

\* what C9 says of the loop: every pair of the product is evaluated once,
\* with N_GRID_SIMS runs, and nothing else is
EachPairOnce ==
    /\ \A c \in BagToSet(calls) :
         c.phase = "grid" => c.R \in R_grid /\ c.Q \in Q_grid
    /\ \A rr \in R_grid, qq \in Q_grid : GridCalls(rr, qq) <= N_GRID_SIMS
    /\ \A i \in 1..Len(grid_rows) :
         /\ grid_rows[i].R \in R_grid
         /\ grid_rows[i].Q \in Q_grid
         /\ GridCalls(grid_rows[i].R, grid_rows[i].Q) = N_GRID_SIMS
         /\ \A j \in 1..Len(grid_rows) :
              i # j => \/ grid_rows[i].R # grid_rows[j].R
                       \/ grid_rows[i].Q # grid_rows[j].Q
    /\ gpc # "grid" =>
         /\ Len(grid_rows) = Cardinality(R_grid) * Cardinality(Q_grid)
         /\ \A rr \in R_grid, qq \in Q_grid :
              GridCalls(rr, qq) = N_GRID_SIMS

====
